---- MODULE Spec2Model ----
(***************************************************************************)
(* Orders API: the five request handlers of the orders controller over the *)
(* orders table, as a state machine.  A client sends one request at a      *)
(* time: a handler runs on the idle server, answers, and the answer is     *)
(* delivered before the next request.                                      *)
(*                                                                         *)
(* Strings are sequences of one-character strings, so that parsing         *)
(* (parseInt, parseFloat, ToNumber) and text comparison are computed.      *)
(* Amounts are whole numbers of currency units.                            *)
(***************************************************************************)
EXTENDS Integers, Sequences, FiniteSets, TLC

VARIABLES orders, seq, req, res, submitted, assigned, pages, inflight

vars == <<orders, seq, req, res, submitted, assigned, pages, inflight>>

\* Largest id the model lets the table assign (number of creates in a run).
MaxOrders == 2

-----------------------------------------------------------------------------
(* JavaScript / JSON values of request bodies, query strings and rows.     *)

Undefined == [t |-> "undefined", n |-> 0, s |-> <<>>]

Num(k) == [t |-> "number", n |-> k, s |-> <<>>]

Str(chars) == [t |-> "string", n |-> 0, s |-> chars]

\* NaN is the one number that is not an integer of the model.
NaN == [t |-> "NaN", n |-> 0, s |-> <<>>]

\* JavaScript truthiness: !v is FALSE exactly for these values.
Truthy(v) ==
  CASE v.t = "number" -> v.n # 0
    [] v.t = "string" -> v.s # <<>>
    [] OTHER -> FALSE

DigitVal ==
  [c \in {"0", "1", "2", "3", "4", "5", "6", "7", "8", "9"} |->
     CASE c = "0" -> 0 [] c = "1" -> 1 [] c = "2" -> 2 [] c = "3" -> 3
       [] c = "4" -> 4 [] c = "5" -> 5 [] c = "6" -> 6 [] c = "7" -> 7
       [] c = "8" -> 8 [] c = "9" -> 9]

IsDigit(c) == c \in DOMAIN DigitVal

RECURSIVE DigitsValue(_)
DigitsValue(s) ==
  IF s = <<>> THEN 0
  ELSE DigitsValue(SubSeq(s, 1, Len(s) - 1)) * 10 + DigitVal[s[Len(s)]]

\* Length of the longest prefix of s made of digits.
RECURSIVE DigitPrefixLen(_)
DigitPrefixLen(s) ==
  IF s = <<>> \/ ~IsDigit(Head(s)) THEN 0 ELSE 1 + DigitPrefixLen(Tail(s))

\* The number read from the longest prefix [-]digits of s, NaN when there is
\* no digit: what parseInt and parseFloat both read from a string without
\* '.', exponent, radix prefix or blanks.
SignedDigitPrefix(s) ==
  LET neg  == s # <<>> /\ Head(s) = "-"
      body == IF neg THEN Tail(s) ELSE s
      k    == DigitPrefixLen(body)
      mag  == DigitsValue(SubSeq(body, 1, k))
  IN  IF k = 0 THEN NaN ELSE Num(IF neg THEN 0 - mag ELSE mag)

\* parseInt(v): an absent parameter (undefined) gives NaN.
ParseInt(v) == IF v.t = "string" THEN SignedDigitPrefix(v.s) ELSE NaN

\* parseFloat(v), on strings of the model's alphabet.
ParseFloat(v) == IF v.t = "string" THEN SignedDigitPrefix(v.s) ELSE NaN

\* A whole string that is an integer literal: [-]digits.
IsIntegerLiteral(s) ==
  LET body == IF s # <<>> /\ Head(s) = "-" THEN Tail(s) ELSE s
  IN  body # <<>> /\ DigitPrefixLen(body) = Len(body)

\* JavaScript ToNumber, applied by <= and isNaN: "" is 0, a numeric string
\* its number, any other string NaN, undefined NaN.
ToNumber(v) ==
  CASE v.t = "number" -> v
    [] v.t = "string" ->
         IF v.s = <<>> THEN Num(0)
         ELSE IF IsIntegerLiteral(v.s) THEN SignedDigitPrefix(v.s)
         ELSE NaN
    [] OTHER -> NaN

\* v <= 0 in JavaScript: FALSE when v converts to NaN.
LeqZero(v) == LET k == ToNumber(v) IN k.t = "number" /\ k.n <= 0

\* isNaN(v)
IsNaN(v) == ToNumber(v).t = "NaN"

\* x || d for a number x: d when x is NaN or 0.
OrDefault(x, d) == IF x.t = "number" /\ x.n # 0 THEN x.n ELSE d

-----------------------------------------------------------------------------
(* Text of the model.                                                      *)

S_pending == <<"p", "e", "n", "d", "i", "n", "g">>
S_processing == <<"p", "r", "o", "c", "e", "s", "s", "i", "n", "g">>
S_completed == <<"c", "o", "m", "p", "l", "e", "t", "e", "d">>
S_cancelled == <<"c", "a", "n", "c", "e", "l", "l", "e", "d">>
S_invalid == <<"i", "n", "v", "a", "l", "i", "d">>
S_abc == <<"a", "b", "c">>
S_Alice == <<"A", "l", "i", "c", "e">>
S_Bob == <<"B", "o", "b">>
S_Mouse == <<"M", "o", "u", "s", "e">>
D_Jan15 == <<"2", "0", "2", "6", "-", "0", "1", "-", "1", "5">>
D_Feb01 == <<"2", "0", "2", "6", "-", "0", "2", "-", "0", "1">>

validStatuses == <<Str(S_pending), Str(S_processing), Str(S_completed), Str(S_cancelled)>>

\* validStatuses.includes(v): strict equality with one of the four strings.
Includes(list, v) == \E i \in 1..Len(list) : list[i] = v

-----------------------------------------------------------------------------
(* The orders table (database.js) and the values it stores.                *)

Null == [t |-> "null", n |-> 0, s |-> <<>>]

Fields == {"customer_name", "product", "quantity", "amount", "status", "order_date"}

\* INTEGER and NUMERIC column affinity: text that is a well-formed integer
\* literal is stored as that number, any other value is stored as it is.
NumericAffinity(v) ==
  IF v.t = "string" /\ IsIntegerLiteral(v.s) THEN SignedDigitPrefix(v.s) ELSE v

\* The value a column holds after a bound parameter is written to it.  The
\* text columns receive text only in this model and keep it.
ColumnValue(f, v) ==
  IF f \in {"quantity", "amount"} THEN NumericAffinity(v) ELSE v

\* NOT NULL on the six columns and CHECK(status IN (...)).
SchemaOk(r) ==
  /\ \A f \in Fields : r[f].t \notin {"null", "undefined"}
  /\ Includes(validStatuses, r.status)

\* DEFAULT CURRENT_TIMESTAMP, read from a logical clock that ticks with
\* every insert.
CurrentTimestamp(tick) == Num(tick)

\* InsertedRow with quantity and amount bound in each other's place.
InsertedRowSwapped(lastSeq, b) ==
  [id            |-> lastSeq + 1,
   customer_name |-> ColumnValue("customer_name", b.customer_name),
   product       |-> ColumnValue("product", b.product),
   quantity      |-> ColumnValue("quantity", b.amount),
   amount        |-> ColumnValue("amount", b.quantity),
   status        |-> ColumnValue("status", b.status),
   order_date    |-> ColumnValue("order_date", b.order_date),
   created_at    |-> CurrentTimestamp(lastSeq + 1)]

\* InsertedRow on a table without AUTOINCREMENT: the id is one above the
\* largest id stored now.
InsertedRowReusing(lastSeq, b) ==
  [id            |-> 1 + (CHOOSE m \in {0} \cup {o.id : o \in orders} :
                            \A o \in orders : o.id <= m),
   customer_name |-> ColumnValue("customer_name", b.customer_name),
   product       |-> ColumnValue("product", b.product),
   quantity      |-> ColumnValue("quantity", b.quantity),
   amount        |-> ColumnValue("amount", b.amount),
   status        |-> ColumnValue("status", b.status),
   order_date    |-> ColumnValue("order_date", b.order_date),
   created_at    |-> CurrentTimestamp(lastSeq + 1)]

\* INSERT INTO orders (six columns) VALUES (?, ?, ?, ?, ?, ?): the row the
\* table gains, with the AUTOINCREMENT id one above every id ever assigned.
InsertedRow(lastSeq, b) ==
  [id            |-> lastSeq + 1,
   customer_name |-> ColumnValue("customer_name", b.customer_name),
   product       |-> ColumnValue("product", b.product),
   quantity      |-> ColumnValue("quantity", b.quantity),
   amount        |-> ColumnValue("amount", b.amount),
   status        |-> ColumnValue("status", b.status),
   order_date    |-> ColumnValue("order_date", b.order_date),
   created_at    |-> CurrentTimestamp(lastSeq + 1)]

\* WHERE id = ? with the id of the URL bound as text: the INTEGER PRIMARY
\* KEY column compares it as a number when it is an integer literal, and no
\* row matches any other text.
MatchesId(r, id) == IsIntegerLiteral(id) /\ r.id = SignedDigitPrefix(id).n

-----------------------------------------------------------------------------
(* Requests and responses.                                                 *)

NoBody ==
  [customer_name |-> Undefined, product |-> Undefined, quantity |-> Undefined,
   amount |-> Undefined, status |-> Undefined, order_date |-> Undefined]

QueryParams == {"page", "limit", "status", "minAmount", "maxAmount", "startDate", "endDate"}

NoQuery ==
  [page |-> Undefined, limit |-> Undefined, status |-> Undefined,
   minAmount |-> Undefined, maxAmount |-> Undefined, startDate |-> Undefined,
   endDate |-> Undefined]

NoRow ==
  [id |-> 0, customer_name |-> Undefined, product |-> Undefined,
   quantity |-> Undefined, amount |-> Undefined, status |-> Undefined,
   order_date |-> Undefined, created_at |-> Undefined]

NoPagination ==
  [page |-> 0, limit |-> 0, totalOrders |-> 0, totalPages |-> 0,
   hasNextPage |-> FALSE, hasPreviousPage |-> FALSE]

NoRequest == [op |-> "none", id |-> <<>>, body |-> NoBody, query |-> NoQuery]

NoResponse ==
  [status |-> 0, error |-> "", message |-> "", id |-> Undefined, row |-> NoRow,
   data |-> <<>>, pagination |-> NoPagination]

\* res.status(code).json({ error })
ErrorResponse(code, msg) == [NoResponse EXCEPT !.status = code, !.error = msg]

Idle == req.op = "none"

-----------------------------------------------------------------------------
(* POST /orders                                                            *)

\* The 201 body: this.lastID and the six values of the request as received.
CreatedBody(lastID, b) ==
  [id |-> lastID, customer_name |-> b.customer_name, product |-> b.product,
   quantity |-> b.quantity, amount |-> b.amount, status |-> b.status,
   order_date |-> b.order_date, created_at |-> Undefined]

MissingRequired(b) == \E f \in Fields : ~Truthy(b[f])

InvalidMagnitudeOnCreate(b) == LeqZero(b.quantity) \/ LeqZero(b.amount)

createOrder(b) ==
  /\ Idle
  /\ req' = [NoRequest EXCEPT !.op = "create", !.body = b]
  /\ IF MissingRequired(b)
       THEN /\ res' = ErrorResponse(400, "Missing required fields")
            /\ UNCHANGED <<orders, seq>>
     ELSE IF ~Includes(validStatuses, b.status)
       THEN /\ res' = ErrorResponse(400, "Invalid status")
            /\ UNCHANGED <<orders, seq>>
     ELSE IF InvalidMagnitudeOnCreate(b)
       THEN /\ res' = ErrorResponse(400, "Quantity and amount must be positive numbers")
            /\ UNCHANGED <<orders, seq>>
     ELSE IF ~SchemaOk(InsertedRow(seq, b))
       THEN /\ res' = ErrorResponse(500, "Database error")
            /\ UNCHANGED <<orders, seq>>
     ELSE /\ seq < MaxOrders
          /\ orders' = orders \cup {InsertedRow(seq, b)}
          /\ seq' = seq + 1
          /\ res' = [NoResponse EXCEPT !.status = 201, !.id = Num(seq + 1),
                                       !.row = CreatedBody(seq + 1, b),
                                       !.message = "Order created successfully"]

-----------------------------------------------------------------------------
(* GET /orders/:id                                                         *)

\* !id || isNaN(id) on the id of the URL, a string.
InvalidOrderId(id) == id = <<>> \/ IsNaN(Str(id))

getOrderById(id) ==
  /\ Idle
  /\ req' = [NoRequest EXCEPT !.op = "read", !.id = id]
  /\ UNCHANGED <<orders, seq>>
  /\ IF InvalidOrderId(id)
       THEN res' = ErrorResponse(400, "Invalid order ID")
     ELSE IF ~\E r \in orders : MatchesId(r, id)
       THEN res' = ErrorResponse(404, "Order not found")
     ELSE res' = [NoResponse EXCEPT !.status = 200,
                    !.row = CHOOSE r \in orders : MatchesId(r, id)]

-----------------------------------------------------------------------------
(* PUT /orders/:id                                                         *)

InvalidStatusOnUpdate(b) == Truthy(b.status) /\ ~Includes(validStatuses, b.status)

\* InvalidMagnitudeOnUpdate testing truthiness in place of !== undefined.
InvalidMagnitudeIfTruthy(b) ==
  \/ Truthy(b.quantity) /\ LeqZero(b.quantity)
  \/ Truthy(b.amount) /\ LeqZero(b.amount)

InvalidMagnitudeOnUpdate(b) ==
  \/ b.quantity.t # "undefined" /\ LeqZero(b.quantity)
  \/ b.amount.t # "undefined" /\ LeqZero(b.amount)

\* The columns of the SET list: one per truthy field of the body.
updates(b) == {f \in Fields : Truthy(b[f])}

\* UpdatedRow that writes status on every update: 'pending' when the body
\* carries none.
UpdatedRowResetStatus(r, b) ==
  [id            |-> r.id,
   customer_name |-> IF "customer_name" \in updates(b) THEN b.customer_name ELSE r.customer_name,
   product       |-> IF "product" \in updates(b) THEN b.product ELSE r.product,
   quantity      |-> IF "quantity" \in updates(b) THEN ColumnValue("quantity", b.quantity) ELSE r.quantity,
   amount        |-> IF "amount" \in updates(b) THEN ColumnValue("amount", b.amount) ELSE r.amount,
   status        |-> IF "status" \in updates(b) THEN b.status ELSE Str(S_pending),
   order_date    |-> IF "order_date" \in updates(b) THEN b.order_date ELSE r.order_date,
   created_at    |-> r.created_at]

\* UpdatedRow that sets the status of an order only while it is pending:
\* the first status written stays.
UpdatedRowFirstStatusStays(r, b) ==
  [id            |-> r.id,
   customer_name |-> IF "customer_name" \in updates(b) THEN b.customer_name ELSE r.customer_name,
   product       |-> IF "product" \in updates(b) THEN b.product ELSE r.product,
   quantity      |-> IF "quantity" \in updates(b) THEN ColumnValue("quantity", b.quantity) ELSE r.quantity,
   amount        |-> IF "amount" \in updates(b) THEN ColumnValue("amount", b.amount) ELSE r.amount,
   status        |-> IF "status" \in updates(b) /\ r.status = Str(S_pending)
                       THEN b.status ELSE r.status,
   order_date    |-> IF "order_date" \in updates(b) THEN b.order_date ELSE r.order_date,
   created_at    |-> r.created_at]

\* UPDATE orders SET <updates> WHERE id = ?, on one row.
UpdatedRow(r, b) ==
  [id            |-> r.id,
   customer_name |-> IF "customer_name" \in updates(b)
                       THEN ColumnValue("customer_name", b.customer_name) ELSE r.customer_name,
   product       |-> IF "product" \in updates(b)
                       THEN ColumnValue("product", b.product) ELSE r.product,
   quantity      |-> IF "quantity" \in updates(b)
                       THEN ColumnValue("quantity", b.quantity) ELSE r.quantity,
   amount        |-> IF "amount" \in updates(b)
                       THEN ColumnValue("amount", b.amount) ELSE r.amount,
   status        |-> IF "status" \in updates(b)
                       THEN ColumnValue("status", b.status) ELSE r.status,
   order_date    |-> IF "order_date" \in updates(b)
                       THEN ColumnValue("order_date", b.order_date) ELSE r.order_date,
   created_at    |-> r.created_at]

\* updateOrder looking the order up before it tests for an empty SET list.
updateOrderLookupFirst(id, b) ==
  /\ Idle
  /\ req' = [NoRequest EXCEPT !.op = "update", !.id = id, !.body = b]
  /\ UNCHANGED seq
  /\ LET hit == {r \in orders : MatchesId(r, id)}
     IN  IF InvalidOrderId(id)
           THEN /\ res' = ErrorResponse(400, "Invalid order ID")
                /\ UNCHANGED orders
         ELSE IF InvalidStatusOnUpdate(b)
           THEN /\ res' = ErrorResponse(400, "Invalid status")
                /\ UNCHANGED orders
         ELSE IF InvalidMagnitudeOnUpdate(b)
           THEN /\ res' = ErrorResponse(400, "Quantity and amount must be positive numbers")
                /\ UNCHANGED orders
         ELSE IF hit = {}
           THEN /\ res' = ErrorResponse(404, "Order not found")
                /\ UNCHANGED orders
         ELSE IF updates(b) = {}
           THEN /\ res' = ErrorResponse(400, "No fields to update")
                /\ UNCHANGED orders
         ELSE /\ orders' = (orders \ hit) \cup {UpdatedRow(r, b) : r \in hit}
              /\ res' = [NoResponse EXCEPT !.status = 200, !.id = Str(id),
                                           !.message = "Order updated successfully"]

updateOrder(id, b) ==
  /\ Idle
  /\ req' = [NoRequest EXCEPT !.op = "update", !.id = id, !.body = b]
  /\ UNCHANGED seq
  /\ LET hit == {r \in orders : MatchesId(r, id)}
     IN  IF InvalidOrderId(id)
           THEN /\ res' = ErrorResponse(400, "Invalid order ID")
                /\ UNCHANGED orders
         ELSE IF InvalidStatusOnUpdate(b)
           THEN /\ res' = ErrorResponse(400, "Invalid status")
                /\ UNCHANGED orders
         ELSE IF InvalidMagnitudeOnUpdate(b)
           THEN /\ res' = ErrorResponse(400, "Quantity and amount must be positive numbers")
                /\ UNCHANGED orders
         ELSE IF updates(b) = {}
           THEN /\ res' = ErrorResponse(400, "No fields to update")
                /\ UNCHANGED orders
         ELSE IF \E r \in hit : ~SchemaOk(UpdatedRow(r, b))
           THEN /\ res' = ErrorResponse(500, "Database error")
                /\ UNCHANGED orders
         ELSE IF hit = {}
           THEN /\ res' = ErrorResponse(404, "Order not found")
                /\ UNCHANGED orders
         ELSE /\ orders' = (orders \ hit) \cup {UpdatedRow(r, b) : r \in hit}
              /\ res' = [NoResponse EXCEPT !.status = 200, !.id = Str(id),
                                           !.message = "Order updated successfully"]

-----------------------------------------------------------------------------
(* DELETE /orders/:id                                                      *)

\* deleteOrder without the test of this.changes.
deleteOrderUnchecked(id) ==
  /\ Idle
  /\ req' = [NoRequest EXCEPT !.op = "delete", !.id = id]
  /\ UNCHANGED seq
  /\ LET hit == {r \in orders : MatchesId(r, id)}
     IN  IF InvalidOrderId(id)
           THEN /\ res' = ErrorResponse(400, "Invalid order ID")
                /\ UNCHANGED orders
         ELSE /\ orders' = orders \ hit
              /\ res' = [NoResponse EXCEPT !.status = 200, !.id = Str(id),
                                           !.message = "Order deleted successfully"]

deleteOrder(id) ==
  /\ Idle
  /\ req' = [NoRequest EXCEPT !.op = "delete", !.id = id]
  /\ UNCHANGED seq
  /\ LET hit == {r \in orders : MatchesId(r, id)}
     IN  IF InvalidOrderId(id)
           THEN /\ res' = ErrorResponse(400, "Invalid order ID")
                /\ UNCHANGED orders
         ELSE IF hit = {}
           THEN /\ res' = ErrorResponse(404, "Order not found")
                /\ UNCHANGED orders
         ELSE /\ orders' = orders \ hit
              /\ res' = [NoResponse EXCEPT !.status = 200, !.id = Str(id),
                                           !.message = "Order deleted successfully"]

-----------------------------------------------------------------------------
(* GET /orders                                                             *)

\* Byte value of a character of a date, for the BINARY collation.
CharCode(c) == IF c = "-" THEN 45 ELSE 48 + DigitVal[c]

\* a < b as SQLite compares two texts: byte by byte, a proper prefix first.
RECURSIVE TextLess(_, _)
TextLess(a, b) ==
  IF b = <<>> THEN FALSE
  ELSE IF a = <<>> THEN TRUE
  ELSE IF Head(a) = Head(b) THEN TextLess(Tail(a), Tail(b))
  ELSE CharCode(Head(a)) < CharCode(Head(b))

\* a < b between stored values and bound parameters: a number sorts before
\* a text, numbers by value, texts by TextLess.
SqlLess(a, b) ==
  CASE a.t = "number" /\ b.t = "number" -> a.n < b.n
    [] a.t = "string" /\ b.t = "string" -> TextLess(a.s, b.s)
    [] OTHER -> a.t = "number" /\ b.t = "string"

\* One pushed filter with its bound parameter.
Conjunct(column, op, param) == [column |-> column, op |-> op, param |-> param]

\* filters / params as the handler pushes them, in the order of the code.
Filters(q) ==
     (IF Truthy(q.status) THEN <<Conjunct("status", "=", q.status)>> ELSE <<>>)
  \o (IF Truthy(q.minAmount) THEN <<Conjunct("amount", ">=", ParseFloat(q.minAmount))>> ELSE <<>>)
  \o (IF Truthy(q.maxAmount) THEN <<Conjunct("amount", "<=", ParseFloat(q.maxAmount))>> ELSE <<>>)
  \o (IF Truthy(q.startDate) THEN <<Conjunct("order_date", ">=", q.startDate)>> ELSE <<>>)
  \o (IF Truthy(q.endDate) THEN <<Conjunct("order_date", "<=", q.endDate)>> ELSE <<>>)

\* Holds with >= built as >.
HoldsStrict(c, r) ==
  CASE c.op = "=" -> r[c.column] = c.param
    [] c.op = ">=" -> SqlLess(c.param, r[c.column])
    [] c.op = "<=" -> ~SqlLess(c.param, r[c.column])

\* The truth of one conjunct of the WHERE clause on a row.
Holds(c, r) ==
  CASE c.op = "=" -> r[c.column] = c.param
    [] c.op = ">=" -> ~SqlLess(r[c.column], c.param)
    [] c.op = "<=" -> ~SqlLess(c.param, r[c.column])

\* WHERE filters.join(' AND '); no WHERE clause when there is no filter.
Where(fs, r) == \A i \in 1..Len(fs) : Holds(fs[i], r)

\* Before with the tie broken by id ascending.
BeforeIdAscending(a, b) ==
  \/ SqlLess(b.order_date, a.order_date)
  \/ a.order_date = b.order_date /\ a.id < b.id

\* ORDER BY order_date DESC, id DESC: a comes before b.
Before(a, b) ==
  \/ SqlLess(b.order_date, a.order_date)
  \/ a.order_date = b.order_date /\ a.id > b.id

RECURSIVE OrderBy(_)
OrderBy(rows) ==
  IF rows = {} THEN <<>>
  ELSE LET first == CHOOSE r \in rows : \A o \in rows \ {r} : Before(r, o)
       IN  <<first>> \o OrderBy(rows \ {first})

\* LimitOffset with the LIMIT dropped.
LimitOffsetUnbounded(rows, limit, offset) == SubSeq(rows, offset + 1, Len(rows))

\* LimitOffset with the OFFSET ignored.
LimitOffsetFromStart(rows, limit, offset) ==
  SubSeq(rows, 1, IF limit < Len(rows) THEN limit ELSE Len(rows))

\* LIMIT ? OFFSET ? on an ordered result.
LimitOffset(rows, limit, offset) ==
  SubSeq(rows, offset + 1, IF offset + limit < Len(rows) THEN offset + limit ELSE Len(rows))

\* Ceil rounding down, as Math.floor.
CeilTruncated(a, b) == a \div b

\* Math.ceil(a / b) for a >= 0, b > 0.
Ceil(a, b) == (a + b - 1) \div b

InvalidAmountParam(v) == LET m == ParseFloat(v) IN m.t = "NaN" \/ m.n < 0

getOrders(q) ==
  /\ Idle
  /\ req' = [NoRequest EXCEPT !.op = "list", !.query = q]
  /\ UNCHANGED <<orders, seq>>
  /\ LET page   == OrDefault(ParseInt(q.page), 1)
         limit  == OrDefault(ParseInt(q.limit), 10)
         offset == (page - 1) * limit
         fs     == Filters(q)
         match  == {r \in orders : Where(fs, r)}
         totalOrders == Cardinality(match)
         totalPages  == Ceil(totalOrders, limit)
     IN  IF page < 1 \/ limit < 1 \/ limit > 100
           THEN res' = ErrorResponse(400, "Invalid pagination parameters")
         ELSE IF Truthy(q.status) /\ ~Includes(validStatuses, q.status)
           THEN res' = ErrorResponse(400, "Invalid status filter")
         ELSE IF Truthy(q.minAmount) /\ InvalidAmountParam(q.minAmount)
           THEN res' = ErrorResponse(400, "Invalid minAmount parameter")
         ELSE IF Truthy(q.maxAmount) /\ InvalidAmountParam(q.maxAmount)
           THEN res' = ErrorResponse(400, "Invalid maxAmount parameter")
         ELSE res' = [NoResponse EXCEPT
                        !.status = 200,
                        !.data = LimitOffset(OrderBy(match), limit, offset),
                        !.pagination =
                           [page |-> page, limit |-> limit,
                            totalOrders |-> totalOrders, totalPages |-> totalPages,
                            hasNextPage |-> page < totalPages,
                            hasPreviousPage |-> page > 1]]

\* The client receives the response; the server is idle again.
Deliver ==
  /\ ~Idle
  /\ req' = NoRequest
  /\ res' = NoResponse
  /\ UNCHANGED <<orders, seq, submitted, assigned, pages, inflight>>


-----------------------------------------------------------------------------
(* The handlers step by step: the synchronous part of a handler validates  *)
(* the request and issues its first statement (db.run, db.get, db.all);    *)
(* the table executes one pending statement at a time, in any order; the   *)
(* callback of a statement answers or, after the count of a listing,       *)
(* issues the data query.  Several requests can be in flight.              *)

Clients == 1..2

\* No request in flight on a connection.  calls lists the statements the
\* request has issued, with their success; sent counts the responses sent;
\* after, during and seen record when and on what row its UPDATE ran.
NoConnection ==
  [req |-> NoRequest, pc |-> "idle", stmt |-> "none", calls |-> <<>>,
   total |-> 0, res |-> NoResponse, sent |-> 0, after |-> {}, during |-> {},
   seen |-> NoRow]

\* The 400 answer of createOrder before its INSERT, NoResponse when the
\* body passes.
ValidateCreate(b) ==
  IF MissingRequired(b) THEN ErrorResponse(400, "Missing required fields")
  ELSE IF ~Includes(validStatuses, b.status) THEN ErrorResponse(400, "Invalid status")
  ELSE IF InvalidMagnitudeOnCreate(b)
    THEN ErrorResponse(400, "Quantity and amount must be positive numbers")
  ELSE NoResponse

\* The 400 answer of getOrderById and deleteOrder before their statement.
ValidateId(id) ==
  IF InvalidOrderId(id) THEN ErrorResponse(400, "Invalid order ID") ELSE NoResponse

\* The 400 answer of updateOrder before its UPDATE.
ValidateUpdate(id, b) ==
  IF InvalidOrderId(id) THEN ErrorResponse(400, "Invalid order ID")
  ELSE IF InvalidStatusOnUpdate(b) THEN ErrorResponse(400, "Invalid status")
  ELSE IF InvalidMagnitudeOnUpdate(b)
    THEN ErrorResponse(400, "Quantity and amount must be positive numbers")
  ELSE IF updates(b) = {} THEN ErrorResponse(400, "No fields to update")
  ELSE NoResponse

\* page and limit as getOrders reads them.
PageOf(q) == OrDefault(ParseInt(q.page), 1)

LimitOf(q) == OrDefault(ParseInt(q.limit), 10)

\* The 400 answer of getOrders before its count query.
ValidateList(q) ==
  IF PageOf(q) < 1 \/ LimitOf(q) < 1 \/ LimitOf(q) > 100
    THEN ErrorResponse(400, "Invalid pagination parameters")
  ELSE IF Truthy(q.status) /\ ~Includes(validStatuses, q.status)
    THEN ErrorResponse(400, "Invalid status filter")
  ELSE IF Truthy(q.minAmount) /\ InvalidAmountParam(q.minAmount)
    THEN ErrorResponse(400, "Invalid minAmount parameter")
  ELSE IF Truthy(q.maxAmount) /\ InvalidAmountParam(q.maxAmount)
    THEN ErrorResponse(400, "Invalid maxAmount parameter")
  ELSE NoResponse

Validate(r) ==
  CASE r.op = "create" -> ValidateCreate(r.body)
    [] r.op = "update" -> ValidateUpdate(r.id, r.body)
    [] r.op = "list"   -> ValidateList(r.query)
    [] OTHER           -> ValidateId(r.id)

\* The statement a handler issues once the request has passed validation.
FirstStatement(op) ==
  CASE op = "create" -> "insert"
    [] op = "read"   -> "select"
    [] op = "update" -> "update"
    [] op = "delete" -> "delete"
    [] op = "list"   -> "count"

\* The synchronous part of a handler, on connection c.
Handle(c, r) ==
  /\ inflight[c].pc = "idle"
  /\ inflight' =
       [inflight EXCEPT ![c] =
          IF Validate(r) # NoResponse
            THEN [NoConnection EXCEPT !.req = r, !.pc = "responded",
                                      !.res = Validate(r), !.sent = 1]
            ELSE [NoConnection EXCEPT !.req = r, !.pc = "storage",
                                      !.stmt = FirstStatement(r.op)]]
  /\ UNCHANGED <<orders, seq, req, res, submitted, assigned, pages>>

\* The connections whose UPDATE has run and whose request is still in
\* flight.
RanBefore(c) ==
  {d \in Clients \ {c} : inflight[d].pc = "responded" /\ inflight[d].req.op = "update"
                           /\ inflight[d].calls # <<>>}

\* The connections whose statement is pending while this one runs.
Overlapping(c) == {d \in Clients \ {c} : inflight[d].pc = "storage"}

\* The connection after its pending statement has run and its callback has
\* sent the response.
Answered(k, response) ==
  [k EXCEPT !.pc = "responded", !.stmt = "none",
            !.calls = Append(@, [stmt |-> k.stmt, ok |-> TRUE]),
            !.res = response, !.sent = @ + 1]

\* The table executes the pending statement of connection c and the
\* callback of the statement runs.
Execute(c) ==
  LET k     == inflight[c]
      r     == k.req
      hit   == {o \in orders : MatchesId(o, r.id)}
      match == {o \in orders : Where(Filters(r.query), o)}
      page  == PageOf(r.query)
      limit == LimitOf(r.query)
  IN  /\ k.pc = "storage"
      /\ UNCHANGED <<req, res, submitted, assigned, pages>>
      /\ CASE k.stmt = "insert" ->
                /\ SchemaOk(InsertedRow(seq, r.body))
                /\ orders' = orders \cup {InsertedRow(seq, r.body)}
                /\ seq' = seq + 1
                /\ inflight' =
                     [inflight EXCEPT ![c] =
                        Answered(k, [NoResponse EXCEPT
                                       !.status = 201, !.id = Num(seq + 1),
                                       !.row = CreatedBody(seq + 1, r.body),
                                       !.message = "Order created successfully"])]
           [] k.stmt = "select" ->
                /\ UNCHANGED <<orders, seq>>
                /\ inflight' =
                     [inflight EXCEPT ![c] =
                        Answered(k, IF hit = {}
                                      THEN ErrorResponse(404, "Order not found")
                                      ELSE [NoResponse EXCEPT
                                              !.status = 200,
                                              !.row = CHOOSE o \in hit : TRUE])]
           [] k.stmt = "update" ->
                /\ \A o \in hit : SchemaOk(UpdatedRow(o, r.body))
                /\ orders' = (orders \ hit) \cup {UpdatedRow(o, r.body) : o \in hit}
                /\ UNCHANGED seq
                /\ inflight' =
                     [inflight EXCEPT ![c] =
                        [Answered(k, IF hit = {}
                                       THEN ErrorResponse(404, "Order not found")
                                       ELSE [NoResponse EXCEPT
                                               !.status = 200, !.id = Str(r.id),
                                               !.message = "Order updated successfully"])
                           EXCEPT !.after = RanBefore(c), !.during = Overlapping(c),
                                  !.seen = IF hit = {} THEN NoRow
                                           ELSE CHOOSE o \in hit : TRUE]]
           [] k.stmt = "delete" ->
                /\ orders' = orders \ hit
                /\ UNCHANGED seq
                /\ inflight' =
                     [inflight EXCEPT ![c] =
                        Answered(k, IF hit = {}
                                      THEN ErrorResponse(404, "Order not found")
                                      ELSE [NoResponse EXCEPT
                                              !.status = 200, !.id = Str(r.id),
                                              !.message = "Order deleted successfully"])]
           [] k.stmt = "count" ->
                /\ UNCHANGED <<orders, seq>>
                /\ inflight' =
                     [inflight EXCEPT ![c] =
                        [k EXCEPT !.stmt = "data",
                                  !.calls = Append(@, [stmt |-> "count", ok |-> TRUE]),
                                  !.total = Cardinality(match)]]
           [] k.stmt = "data" ->
                /\ UNCHANGED <<orders, seq>>
                /\ inflight' =
                     [inflight EXCEPT ![c] =
                        Answered(k, [NoResponse EXCEPT
                                       !.status = 200,
                                       !.data = LimitOffset(OrderBy(match), limit,
                                                            (page - 1) * limit),
                                       !.pagination =
                                          [page |-> page, limit |-> limit,
                                           totalOrders |-> k.total,
                                           totalPages |-> Ceil(k.total, limit),
                                           hasNextPage |-> page < Ceil(k.total, limit),
                                           hasPreviousPage |-> page > 1]])]

\* Fail for a DELETE that fails after it has removed its row.
FailApplied(c) ==
  LET k == inflight[c]
  IN  /\ k.pc = "storage"
      /\ inflight' =
           [inflight EXCEPT ![c] =
              [k EXCEPT !.pc = "responded", !.stmt = "none",
                        !.calls = Append(@, [stmt |-> k.stmt, ok |-> FALSE]),
                        !.res = ErrorResponse(500, "Database error"),
                        !.sent = @ + 1]]
      /\ orders' = IF k.stmt = "delete"
                     THEN {o \in orders : ~MatchesId(o, k.req.id)} ELSE orders
      /\ UNCHANGED <<seq, req, res, submitted, assigned, pages>>

\* Fail that leaves the failed statement pending, to be run again.
FailRetried(c) ==
  LET k == inflight[c]
  IN  /\ k.pc = "storage"
      /\ Len(k.calls) < 3
      /\ inflight' =
           [inflight EXCEPT ![c] =
              [k EXCEPT !.calls = Append(@, [stmt |-> k.stmt, ok |-> FALSE])]]
      /\ UNCHANGED <<orders, seq, req, res, submitted, assigned, pages>>

\* The pending statement of connection c fails (if (err)): the callback
\* answers 500 and issues nothing more; the table is as it was.
Fail(c) ==
  LET k == inflight[c]
  IN  /\ k.pc = "storage"
      /\ inflight' =
           [inflight EXCEPT ![c] =
              [k EXCEPT !.pc = "responded", !.stmt = "none",
                        !.calls = Append(@, [stmt |-> k.stmt, ok |-> FALSE]),
                        !.res = ErrorResponse(500, "Database error"),
                        !.sent = @ + 1]]
      /\ UNCHANGED <<orders, seq, req, res, submitted, assigned, pages>>

\* The client of connection c receives the response.
Return(c) ==
  /\ inflight[c].pc = "responded"
  /\ inflight' = [d \in Clients |->
                    IF d = c THEN NoConnection
                    ELSE [inflight[d] EXCEPT !.after = @ \ {c}, !.during = @ \ {c}]]
  /\ UNCHANGED <<orders, seq, req, res, submitted, assigned, pages>>

-----------------------------------------------------------------------------
(* The requests a client sends.                                            *)

\* Most fields of a create body that differ from BaseBody.
MaxDeviations == 2

\* Most fields an update body supplies.
MaxSupplied == 2

BaseBody ==
  [customer_name |-> Str(S_Alice), product |-> Str(S_Mouse), quantity |-> Num(1),
   amount |-> Num(50), status |-> Str(S_pending), order_date |-> Str(D_Jan15)]

StatusInputs == {Undefined, Str(<<>>), Str(S_invalid)} \cup {validStatuses[i] : i \in 1..Len(validStatuses)}

CreateBodies ==
  {b \in [customer_name : {Undefined, Str(<<>>), Str(S_Alice)},
          product       : {Undefined, Str(S_Mouse)},
          quantity      : {Undefined, Num(0), Num(-1), Num(1), Str(<<"1">>), Str(S_abc)},
          amount        : {Undefined, Num(0), Num(-1), Num(50), Num(100)},
          status        : StatusInputs,
          order_date    : {Undefined, Str(<<>>), Str(D_Jan15)}] :
     Cardinality({f \in Fields : b[f] # BaseBody[f]}) <= MaxDeviations}

UpdateBodies ==
  {b \in [customer_name : {Undefined, Str(<<>>), Str(S_Bob)},
          product       : {Undefined, Str(S_Mouse)},
          quantity      : {Undefined, Num(0), Num(-1), Num(1), Str(<<"1">>), Str(S_abc)},
          amount        : {Undefined, Num(0), Num(50), Num(100)},
          status        : StatusInputs,
          order_date    : {Undefined, Str(<<>>), Str(D_Jan15)}] :
     Cardinality({f \in Fields : b[f] # Undefined}) <= MaxSupplied}

DecimalDigits == <<"0", "1", "2", "3", "4", "5", "6", "7", "8", "9">>

\* The ids of the URLs: every id the table can assign, one it cannot, and
\* one that is no number.
IdParams == {<<DecimalDigits[k + 1]>> : k \in 1..(MaxOrders + 1)} \cup {S_abc}

CrudQueries ==
  {NoQuery,
   [NoQuery EXCEPT !.status = Str(S_pending)],
   [NoQuery EXCEPT !.limit = Str(<<"1">>)],
   [NoQuery EXCEPT !.page = Str(<<"2">>), !.limit = Str(<<"1">>)]}

\* Queries whose parameters are all well formed, in every combination.
WellFormedQueries ==
  [page      : {Undefined, Str(<<"1">>), Str(<<"2">>)},
   limit     : {Undefined, Str(<<"1">>), Str(<<"2">>), Str(<<"1", "0", "0">>)},
   status    : {Undefined, Str(S_pending)},
   minAmount : {Undefined, Str(<<"1", "0", "0">>)},
   maxAmount : {Undefined, Str(<<"5", "0">>)},
   startDate : {Undefined, Str(D_Feb01)},
   endDate   : {Undefined, Str(D_Jan15)}]

\* Queries with out-of-range, empty or malformed parameters, in every
\* combination.
MalformedQueries ==
  [page      : {Undefined, Str(<<"0">>), Str(<<"-", "1">>)},
   limit     : {Undefined, Str(<<"0">>), Str(<<"1", "0", "1">>), Str(<<"5", "0", "0">>)},
   status    : {Undefined, Str(<<>>), Str(S_invalid)},
   minAmount : {Undefined, Str(S_abc), Str(<<"5", "0", "a">>)},
   maxAmount : {Undefined, Str(<<"-", "1">>)},
   startDate : {Undefined},
   endDate   : {Undefined}]

ListQueries == WellFormedQueries \cup MalformedQueries

\* The values that differ between the rows the listing is run on.
RowKinds ==
  [amount : {Num(50), Num(100)}, status : {Str(S_pending), Str(S_completed)},
   order_date : {Str(D_Jan15), Str(D_Feb01)}]

\* The row with this id that a create of such an order has left.
ListRow(id, k) ==
  [id |-> id, customer_name |-> Str(S_Alice), product |-> Str(S_Mouse),
   quantity |-> Num(1), amount |-> k.amount, status |-> k.status,
   order_date |-> k.order_date, created_at |-> CurrentTimestamp(id)]

\* Most pages a client asks for, one after the other.
MaxPages == 4

\* The filters and limits paged through: the well-formed queries with a
\* limit of 1, 2 or the default, the page left open.
PageQueries ==
  {q \in WellFormedQueries :
     /\ q.page = Undefined
     /\ q.limit # Str(<<"1", "0", "0">>)
     /\ q.startDate = Undefined}

Request(op, id, body, query) == [op |-> op, id |-> id, body |-> body, query |-> query]

\* The requests of the step-by-step server: valid and invalid ones of each
\* kind, and every malformed listing.
ServerRequests ==
       {Request("create", <<>>, b, NoQuery) :
          b \in {BaseBody,
                 [BaseBody EXCEPT !.amount = Num(100), !.status = Str(S_completed)],
                 [BaseBody EXCEPT !.quantity = Num(0)],
                 [BaseBody EXCEPT !.customer_name = Undefined],
                 [BaseBody EXCEPT !.status = Str(S_invalid)]}}
  \cup {Request("read", id, NoBody, NoQuery) : id \in IdParams}
  \cup {Request("update", id, b, NoQuery) :
          id \in IdParams,
          b \in {NoBody,
                 [NoBody EXCEPT !.status = Str(S_cancelled)],
                 [NoBody EXCEPT !.amount = Num(100)],
                 [NoBody EXCEPT !.status = Str(S_invalid)],
                 [NoBody EXCEPT !.quantity = Num(0)]}}
  \cup {Request("delete", id, NoBody, NoQuery) : id \in IdParams}
  \cup {Request("list", <<>>, NoBody, q) : q \in CrudQueries \cup MalformedQueries}

\* The two updates that meet on one order: both set the status, each sets
\* one field the other leaves alone.
RaceUpdates ==
  {[NoBody EXCEPT !.status = Str(S_completed), !.customer_name = Str(S_Bob)],
   [NoBody EXCEPT !.status = Str(S_cancelled), !.amount = Num(100)]}

\* The requests of clients that act at the same time.
RaceRequests ==
       {Request("create", <<>>, BaseBody, NoQuery)}
  \cup {Request("update", <<"1">>, b, NoQuery) : b \in RaceUpdates}
  \cup {Request("delete", <<"1">>, NoBody, NoQuery)}
  \cup {Request("list", <<>>, NoBody, q) :
          q \in {NoQuery, [NoQuery EXCEPT !.page = Str(<<"2">>), !.limit = Str(<<"1">>)]}}

\* Tables: for every set of ids up to MaxOrders, every choice of their rows.
Tables ==
  UNION {{{ListRow(i, f[i]) : i \in S} : f \in [S -> RowKinds]} : S \in SUBSET (1..MaxOrders)}

-----------------------------------------------------------------------------
(* Specifications.                                                         *)

\* No page requested yet.
NoPages == [query |-> NoQuery, got |-> <<>>, totalPages |-> 0]

Init ==
  /\ orders = {}
  /\ seq = 0
  /\ req = NoRequest
  /\ res = NoResponse
  /\ submitted = {}
  /\ assigned = {}
  /\ pages = NoPages
  /\ inflight = [c \in Clients |-> NoConnection]

\* The ids assigned so far, with the id of the 201 answer just given.
Assigned == IF res'.status = 201 THEN assigned \cup {res'.id.n} ELSE assigned

Create ==
  /\ Idle
  /\ UNCHANGED <<submitted, pages, inflight>>
  /\ \E b \in CreateBodies : createOrder(b)
  /\ assigned' = Assigned

Read == Idle /\ UNCHANGED <<submitted, assigned, pages, inflight>> /\ \E id \in IdParams : getOrderById(id)

Update == Idle /\ UNCHANGED <<submitted, assigned, pages, inflight>> /\ \E id \in IdParams, b \in UpdateBodies : updateOrder(id, b)

Delete == Idle /\ UNCHANGED <<submitted, assigned, pages, inflight>> /\ \E id \in IdParams : deleteOrder(id)

List == Idle /\ UNCHANGED <<submitted, assigned, pages, inflight>> /\ \E q \in CrudQueries : getOrders(q)

Next == Create \/ Read \/ Update \/ Delete \/ List \/ Deliver

Spec == Init /\ [][Next]_vars

\* The listing on every table, under every query of ListQueries.
InitList ==
  /\ orders \in Tables
  /\ seq = MaxOrders
  /\ req = NoRequest
  /\ res = NoResponse
  /\ submitted = {}
  /\ assigned = 1..MaxOrders
  /\ pages = NoPages
  /\ inflight = [c \in Clients |-> NoConnection]

ListAny == Idle /\ UNCHANGED <<submitted, assigned, pages, inflight>> /\ \E q \in ListQueries : getOrders(q)

NextList == ListAny \/ Deliver

SpecList == InitList /\ [][NextList]_vars

\* The pages 1, 2, ... of one query on one table, with no write between
\* them: pages.got holds the data of the pages answered so far.
InitPages ==
  /\ orders \in Tables
  /\ seq = MaxOrders
  /\ req = NoRequest
  /\ res = NoResponse
  /\ submitted = {}
  /\ assigned = 1..MaxOrders
  /\ pages \in {[NoPages EXCEPT !.query = q] : q \in PageQueries}
  /\ inflight = [c \in Clients |-> NoConnection]

ListPage ==
  /\ Idle
  /\ Len(pages.got) < MaxPages
  /\ getOrders([pages.query EXCEPT !.page = Str(<<DecimalDigits[Len(pages.got) + 2]>>)])
  /\ pages' = [pages EXCEPT !.got = Append(@, res'.data),
                            !.totalPages = res'.pagination.totalPages]
  /\ UNCHANGED <<submitted, assigned, inflight>>

NextPages == ListPage \/ Deliver

SpecPages == InitPages /\ [][NextPages]_vars

\* The inserts that have passed validation and are pending.
PendingInserts == Cardinality({c \in Clients : inflight[c].stmt = "insert"})

\* The table assigns ids up to MaxOrders: a create that would pass
\* validation is sent only while an id is left for it.
WithinIds(r) ==
  (r.op = "create" /\ Validate(r) = NoResponse) => seq + PendingInserts < MaxOrders

\* One client and the server step by step, with statements that can fail.
Serve ==
  /\ inflight[1].pc = "idle"
  /\ \E r \in ServerRequests : WithinIds(r) /\ Handle(1, r)

Run == Execute(1)

Break == Fail(1)

Answer == Return(1)

NextServer == Serve \/ Run \/ Break \/ Answer

SpecServer == Init /\ [][NextServer]_vars

\* The same with every pending statement run or failed in the end.
SpecServerFair == SpecServer /\ WF_vars(Run \/ Break)

\* Two clients whose requests are in flight at the same time.
Accept ==
  \E c \in Clients :
    /\ inflight[c].pc = "idle"
    /\ \E r \in RaceRequests : WithinIds(r) /\ Handle(c, r)

Commit == \E c \in Clients : Execute(c)

Abort == \E c \in Clients : Fail(c)

Reply == \E c \in Clients : Return(c)

NextRace == Accept \/ Commit \/ Abort \/ Reply

SpecRace == Init /\ [][NextRace]_vars

\* Creates and reads only, with the history of what each create submitted:
\* submitted holds the 201 body of every order created so far.
CreateTracked ==
  /\ Idle
  /\ \E b \in CreateBodies : createOrder(b)
  /\ submitted' = IF res'.status = 201 THEN submitted \cup {res'.row} ELSE submitted
  /\ assigned' = Assigned
  /\ UNCHANGED <<pages, inflight>>

NextCreate == CreateTracked \/ Read \/ List \/ Deliver

SpecCreate == Init /\ [][NextCreate]_vars

-----------------------------------------------------------------------------
(* Properties of GET /orders, checked under SpecList.                      *)

ListAnswered == req.op = "list" /\ res.status = 200

\* A query parameter that carries a value.
Given(v) == v # Undefined /\ v # Str(<<>>)

\* The row satisfies every conjunct the query gives a value for.
Satisfies(q, r) ==
  /\ Given(q.status) => r.status = q.status
  /\ Given(q.minAmount) => r.amount.t = "number" /\ r.amount.n >= ParseFloat(q.minAmount).n
  /\ Given(q.maxAmount) => r.amount.t = "number" /\ r.amount.n <= ParseFloat(q.maxAmount).n
  /\ Given(q.startDate) => ~TextLess(r.order_date.s, q.startDate.s)
  /\ Given(q.endDate) => ~TextLess(q.endDate.s, r.order_date.s)

C2_InvalidPaginationRejected ==
  LET page  == ParseInt(req.query.page)
      limit == ParseInt(req.query.limit)
  IN  (/\ req.op = "list"
       /\ \/ page.t = "number" /\ page.n < 1
          \/ limit.t = "number" /\ (limit.n < 1 \/ limit.n > 100))
      => /\ res.status = 400
         /\ res.error = "Invalid pagination parameters"
         /\ res.data = <<>>

\* The page and the limit a query asks for, with the defaults 1 and 10.
AskedPage(q) == IF q.page = Undefined THEN 1 ELSE ParseInt(q.page).n

AskedLimit(q) == IF q.limit = Undefined THEN 10 ELSE ParseInt(q.limit).n

ValidPaging(q) ==
  /\ q.page = Undefined \/ (ParseInt(q.page).t = "number" /\ ParseInt(q.page).n >= 1)
  /\ q.limit = Undefined
       \/ (ParseInt(q.limit).t = "number" /\ ParseInt(q.limit).n >= 1 /\ ParseInt(q.limit).n <= 100)

\* C3: a successful listing with page >= 1 and 1 <= limit <= 100 (1 and 10
\* when omitted) returns at most limit orders, and hasNextPage is
\* page * limit < totalOrders.
C3_PageSizeAndNextPage ==
  (ListAnswered /\ ValidPaging(req.query)) =>
    /\ res.pagination.page = AskedPage(req.query)
    /\ res.pagination.limit = AskedLimit(req.query)
    /\ Len(res.data) <= AskedLimit(req.query)
    /\ res.pagination.hasNextPage
         = (AskedPage(req.query) * AskedLimit(req.query) < res.pagination.totalOrders)

C3_Witness ==
  /\ ListAnswered /\ ValidPaging(req.query)
  /\ req.query.limit = Str(<<"1">>) /\ req.query.page = Undefined
  /\ res.pagination.totalOrders = 2
  /\ Len(res.data) = 1
  /\ res.pagination.hasNextPage

\* C9: the data of a successful listing is in order_date descending order,
\* and among equal order_date in id descending order.
C9_SortedByDateThenId ==
  ListAnswered =>
    \A i, j \in 1..Len(res.data) :
      i < j =>
        \/ TextLess(res.data[j].order_date.s, res.data[i].order_date.s)
        \/ /\ res.data[i].order_date = res.data[j].order_date
           /\ res.data[i].id > res.data[j].id

C9_Witness ==
  /\ ListAnswered
  /\ Len(res.data) = 2
  /\ res.data[1].order_date = res.data[2].order_date
  /\ res.data[1].id = 2

-----------------------------------------------------------------------------
(* Properties of create, read, update and delete.                          *)

TextFields == {"customer_name", "product", "status", "order_date"}

\* v > 0 as a number.
GtZero(v) == ToNumber(v).t = "number" /\ ToNumber(v).n > 0

\* The value a read returns for a value written to column f: numeric text in
\* quantity and amount comes back as the number it denotes.
StoredForm(f, v) ==
  IF f \in {"quantity", "amount"} /\ v.t = "string" /\ IsIntegerLiteral(v.s)
    THEN SignedDigitPrefix(v.s) ELSE v

\* C4: every stored order has one of the four statuses, a quantity > 0, an
\* amount > 0 and non-empty customer_name, product and order_date.
C4_StoredOrdersValid ==
  \A r \in orders :
    /\ Includes(validStatuses, r.status)
    /\ r.quantity.t = "number" /\ r.quantity.n > 0
    /\ r.amount.t = "number" /\ r.amount.n > 0
    /\ \A f \in {"customer_name", "product", "order_date"} :
         r[f].t = "string" /\ r[f].s # <<>>

\* C8: a create is answered 201 exactly when all six fields are truthy, the
\* status is one of the four and quantity > 0 and amount > 0; otherwise 400
\* with "Missing required fields", else "Invalid status", else the
\* magnitude error, and no order is added.
C8_CreateAcceptedIff ==
  [][(Idle /\ req'.op = "create") =>
       LET b        == req'.body
           present  == \A f \in Fields : b[f] \notin {Undefined, Num(0), Str(<<>>)}
           statusOk == Includes(validStatuses, b.status)
           positive == GtZero(b.quantity) /\ GtZero(b.amount)
       IN  /\ (res'.status = 201) = (present /\ statusOk /\ positive)
           /\ res'.status # 201 =>
                /\ res'.status = 400
                /\ orders' = orders /\ seq' = seq
                /\ res'.error = IF ~present THEN "Missing required fields"
                                ELSE IF ~statusOk THEN "Invalid status"
                                ELSE "Quantity and amount must be positive numbers"]_vars

\* C5 as stated: a successful update sets exactly the supplied fields of the
\* order to the supplied values and changes nothing else.
C5_UpdateSetsEverySuppliedField ==
  [][(Idle /\ req'.op = "update" /\ res'.status = 200) =>
       \E old \in orders, new \in orders' :
         /\ MatchesId(old, req'.id)
         /\ new.id = old.id /\ new.created_at = old.created_at
         /\ \A f \in Fields :
              new[f] = IF req'.body[f] # Undefined THEN req'.body[f] ELSE old[f]
         /\ orders' \ {new} = orders \ {old}]_vars

\* C5, amended: a successful update sets exactly the fields supplied with a
\* non-empty value, to the value as the column stores it; a field not
\* supplied or supplied as the empty string, the id, created_at and every
\* other order are unchanged; and an update that supplies only a valid status
\* succeeds on every stored order, whatever its status.
C5_UpdateSetsGivenFields ==
  [][/\ (Idle /\ req'.op = "update" /\ res'.status = 200) =>
          \E old \in orders, new \in orders' :
            /\ MatchesId(old, req'.id)
            /\ new.id = old.id /\ new.created_at = old.created_at
            /\ \A f \in Fields :
                 new[f] = IF Given(req'.body[f]) THEN StoredForm(f, req'.body[f]) ELSE old[f]
            /\ orders' \ {new} = orders \ {old}
     /\ (/\ Idle /\ req'.op = "update"
         /\ \E old \in orders : MatchesId(old, req'.id)
         /\ Includes(validStatuses, req'.body.status)
         /\ \A f \in Fields \ {"status"} : req'.body[f] = Undefined)
        => res'.status = 200]_vars

C5_Witness ==
  /\ req.op = "update" /\ res.status = 200
  /\ req.body.customer_name = Str(<<>>)
  /\ req.body.status = Str(S_cancelled)
  /\ Cardinality(orders) = 2
  /\ \E r \in orders :
       MatchesId(r, req.id) /\ r.status = Str(S_cancelled) /\ r.customer_name = Str(S_Alice)

\* C6 as stated: quantity: 0 in an update is skipped, neither rejected nor
\* applied: alone it gives "No fields to update", with another valid field
\* the update succeeds.
C6_ZeroQuantitySkipped ==
  (req.op = "update" /\ ~InvalidOrderId(req.id) /\ req.body.quantity = Num(0)) =>
    /\ res.error # "Quantity and amount must be positive numbers"
    /\ (\A f \in Fields \ {"quantity"} : req.body[f] = Undefined)
         => (res.status = 400 /\ res.error = "No fields to update")

\* C6, amended: quantity: 0 in an update is rejected with 400 (the magnitude
\* error, or "Invalid status" when the body also carries an invalid status)
\* and nothing is stored.  What is skipped is a text field supplied as the
\* empty string: alone it gives "No fields to update", and a successful
\* update leaves that field as it was.
C6_ZeroQuantityRejected ==
  [][(Idle /\ req'.op = "update" /\ ~InvalidOrderId(req'.id)) =>
       LET b == req'.body
       IN  /\ b.quantity = Num(0) =>
                /\ res'.status = 400
                /\ res'.error = IF Given(b.status) /\ ~Includes(validStatuses, b.status)
                                  THEN "Invalid status"
                                  ELSE "Quantity and amount must be positive numbers"
                /\ orders' = orders
           /\ (/\ b.quantity = Undefined /\ b.amount = Undefined
               /\ \A f \in TextFields : b[f] \in {Undefined, Str(<<>>)})
                => (res'.status = 400 /\ res'.error = "No fields to update" /\ orders' = orders)
           /\ \A f \in TextFields :
                (b[f] = Str(<<>>) /\ res'.status = 200) =>
                  \A old \in orders : MatchesId(old, req'.id) =>
                    \E new \in orders' : new.id = old.id /\ new[f] = old[f]]_vars

C6_Witness ==
  /\ req.op = "update" /\ res.status = 400
  /\ req.body.quantity = Num(0)
  /\ req.body.status = Str(S_completed)
  /\ res.error = "Quantity and amount must be positive numbers"
  /\ \E r \in orders : MatchesId(r, req.id)

Missing(id) == IsIntegerLiteral(id) /\ ~\E r \in orders : MatchesId(r, id)

\* C10 as stated: a read, update or delete of a numeric id that is not
\* stored is answered 404 and leaves the store unchanged.
C10_MissingIdIs404 ==
  [][(Idle /\ req'.op \in {"read", "update", "delete"} /\ Missing(req'.id)) =>
       (res'.status = 404 /\ orders' = orders)]_vars

\* C10, amended: a read or delete of a numeric id that is not stored, and an
\* update of it whose body passes validation, is answered 404 and leaves the
\* store unchanged; a successful delete removes the order; an id that was
\* assigned is never given to a later order, so a deleted id stays missing;
\* and a listing returns stored orders only.
C10_NotFound ==
  [][/\ (/\ Idle /\ Missing(req'.id)
         /\ \/ req'.op \in {"read", "delete"}
            \/ /\ req'.op = "update"
               /\ ~InvalidStatusOnUpdate(req'.body)
               /\ ~InvalidMagnitudeOnUpdate(req'.body)
               /\ \E f \in Fields : Given(req'.body[f]))
        => (res'.status = 404 /\ res'.error = "Order not found" /\ orders' = orders)
     /\ (Idle /\ req'.op = "delete" /\ res'.status = 200) =>
          ~\E r \in orders' : MatchesId(r, req'.id)
     /\ seq' >= seq
     /\ \A r \in orders' : r.id > seq \/ \E o \in orders : o.id = r.id
     /\ (req'.op = "list" /\ res'.status = 200) =>
          \A i \in 1..Len(res'.data) : res'.data[i] \in orders']_vars

C10_Witness ==
  /\ req.op = "delete" /\ res.status = 404
  /\ IsIntegerLiteral(req.id)
  /\ SignedDigitPrefix(req.id).n <= seq
  /\ orders # {}

-----------------------------------------------------------------------------
(* Properties of updates without fields and of assigned ids.               *)

\* C11: an update with a numeric id whose body has none of the six fields
\* is answered 400 "No fields to update", whether or not an order with that
\* id is stored (never 404), and leaves the store unchanged.
C11_NoFieldsIs400 ==
  [][(/\ Idle /\ req'.op = "update"
      /\ IsIntegerLiteral(req'.id)
      /\ \A f \in Fields : req'.body[f] = Undefined)
     => /\ res'.status = 400
        /\ res'.error = "No fields to update"
        /\ orders' = orders /\ seq' = seq]_vars

C11_Witness ==
  /\ req.op = "update" /\ req.body = NoBody
  /\ Missing(req.id)
  /\ orders # {}
  /\ res.status = 400 /\ res.error = "No fields to update"

\* C15: the id a successful create assigns is a positive integer that no
\* earlier create of the history was given, deleted orders included, and it
\* is the id of the one order the create stores; an update changes neither
\* the id nor the created_at of any stored order.
C15_IdsNeverReused ==
  [][/\ (Idle /\ req'.op = "create" /\ res'.status = 201) =>
          /\ res'.id.t = "number" /\ res'.id.n >= 1
          /\ res'.id.n \notin assigned
          /\ \A o \in orders : o.id # res'.id.n
          /\ \E new \in orders' : new.id = res'.id.n /\ orders' \ {new} = orders
     /\ (Idle /\ req'.op = "update") =>
          /\ \A o \in orders :
               \E n \in orders' : n.id = o.id /\ n.created_at = o.created_at
          /\ Cardinality(orders') = Cardinality(orders)
     /\ \A o \in orders : o.id >= 1 /\ o.id \in assigned]_vars

C15_Witness ==
  /\ req.op = "create" /\ res.status = 201
  /\ res.id = Num(2)
  /\ 1 \in assigned
  /\ \A o \in orders : o.id = 2

-----------------------------------------------------------------------------
(* Properties of the pagination metadata, checked under SpecList.          *)

\* C12: in a successful listing totalPages is ceil(totalOrders / limit),
\* the least number of pages of limit orders that hold totalOrders orders,
\* 0 when totalOrders is 0, and hasPreviousPage is page > 1; a listing
\* without parameters on an empty table returns no data, totalOrders 0,
\* totalPages 0, hasNextPage false and hasPreviousPage false.
C12_TotalPagesAndPrevious ==
  /\ ListAnswered =>
       LET p == res.pagination
       IN  /\ ValidPaging(req.query) =>
                (p.page = AskedPage(req.query) /\ p.limit = AskedLimit(req.query))
           /\ p.totalPages >= 0
           /\ p.totalPages * p.limit >= p.totalOrders
           /\ p.totalPages > 0 => (p.totalPages - 1) * p.limit < p.totalOrders
           /\ p.totalOrders = 0 => p.totalPages = 0
           /\ p.hasPreviousPage = (p.page > 1)
  /\ (req.op = "list" /\ req.query = NoQuery /\ orders = {}) =>
       /\ res.status = 200
       /\ res.data = <<>>
       /\ res.pagination.totalOrders = 0 /\ res.pagination.totalPages = 0
       /\ ~res.pagination.hasNextPage /\ ~res.pagination.hasPreviousPage

C12_Witness ==
  /\ ListAnswered
  /\ req.query.page = Str(<<"2">>) /\ req.query.limit = Str(<<"2">>)
  /\ Cardinality(orders) = 2
  /\ res.pagination.totalOrders = 1
  /\ res.pagination.totalPages = 1
  /\ res.pagination.hasPreviousPage

-----------------------------------------------------------------------------
(* Properties of successive pages, checked under SpecPages.                *)

\* a is listed before b: later order_date first, then higher id.
ListedBefore(a, b) ==
  \/ TextLess(b.order_date.s, a.order_date.s)
  \/ a.order_date = b.order_date /\ a.id > b.id

\* The matching orders of a query as one sorted list.
SortedMatching(q) ==
  LET match == {r \in orders : Satisfies(q, r)}
      n     == Cardinality(match)
  IN  CHOOSE s \in [1..n -> match] :
        \A i, j \in 1..n : i < j => ListedBefore(s[i], s[j])

\* C16: with no write between the requests, page p of a query holds the
\* orders at positions (p-1)*limit .. (p-1)*limit + limit - 1 of the sorted
\* list of matching orders; pages 1..totalPages together hold every
\* matching order exactly once, and every page after totalPages is empty.
C16_PagesPartitionMatches ==
  LET q      == pages.query
      limit  == AskedLimit(q)
      sorted == SortedMatching(q)
      got    == pages.got
  IN  /\ \A p \in 1..Len(got) :
           LET rest == Len(sorted) - (p - 1) * limit
           IN  /\ Len(got[p]) = IF rest <= 0 THEN 0 ELSE IF rest < limit THEN rest ELSE limit
               /\ \A i \in 1..Len(got[p]) : got[p][i] = sorted[(p - 1) * limit + i]
               /\ p > pages.totalPages => got[p] = <<>>
      /\ (Len(got) >= 1 /\ Len(got) >= pages.totalPages) =>
           \A r \in {o \in orders : Satisfies(q, o)} :
             Cardinality({x \in (1..pages.totalPages) \X (1..limit) :
                            x[2] <= Len(got[x[1]]) /\ got[x[1]][x[2]] = r}) = 1

C16_Witness ==
  /\ Len(pages.got) = 3
  /\ pages.query.limit = Str(<<"1">>)
  /\ Given(pages.query.status)
  /\ pages.totalPages = 2
  /\ Len(pages.got[1]) = 1 /\ Len(pages.got[2]) = 1 /\ pages.got[3] = <<>>
  /\ pages.got[1] # pages.got[2]

-----------------------------------------------------------------------------
(* Properties of the storage calls, checked under SpecServer.              *)

\* The text of a parameter is a number that is not negative.
NonNegativeNumber(v) ==
  v.t = "string" /\ IsIntegerLiteral(v.s) /\ SignedDigitPrefix(v.s).n >= 0

ValidationErrors ==
  {"Invalid pagination parameters", "Invalid status filter",
   "Invalid minAmount parameter", "Invalid maxAmount parameter"}

\* C13: a listing whose status filter has a value that is not one of the
\* four statuses is answered 400 "Invalid status filter", and one whose
\* minAmount or maxAmount has a value that is not a non-negative number is
\* answered 400 with the amount error (or the error of an earlier test of
\* the same request); in both cases no count query and no data query is
\* issued.
C13_InvalidFilterRejected ==
  LET k == inflight[1]
      q == k.req.query
  IN  k.req.op = "list" =>
        /\ (Given(q.status) /\ ~Includes(validStatuses, q.status)) =>
             /\ k.pc = "responded" /\ k.res.status = 400 /\ k.calls = <<>>
             /\ k.res.error \in {"Invalid pagination parameters", "Invalid status filter"}
        /\ \A v \in {q.minAmount, q.maxAmount} :
             (Given(v) /\ ~NonNegativeNumber(v)) =>
               /\ k.pc = "responded" /\ k.res.status = 400 /\ k.calls = <<>>
               /\ k.res.error \in ValidationErrors

\* C14: a request answered with a validation failure (400) has issued no
\* statement; the step that answers a request 400, 404 or 500 leaves the
\* stored orders as they are, and the stored orders change only in the step
\* that answers a create, update or delete with 200 or 201, which is the
\* one step of that request that touches the table: every request fully
\* succeeds or has no effect.
C14_FailureHasNoEffect ==
  [][LET k == inflight[1]
         a == inflight'[1]
     IN  /\ a.res.status = 400 => a.calls = <<>>
         /\ (a.pc = "responded" /\ k.pc # "responded"
                /\ a.res.status \in {400, 404, 500}) =>
              (orders' = orders /\ seq' = seq)
         /\ orders' # orders =>
              /\ k.pc = "storage" /\ k.calls = <<>>
              /\ a.pc = "responded" /\ a.res.status \in {200, 201}
              /\ a.req.op \in {"create", "update", "delete"}
         /\ a.pc = "storage" => a.res = NoResponse]_vars

C14_Witness ==
  LET k == inflight[1]
  IN  /\ k.req.op = "update" /\ k.pc = "responded"
      /\ k.res.status = 500
      /\ k.req.body.status = Str(S_cancelled)
      /\ \E o \in orders : MatchesId(o, k.req.id) /\ o.status = Str(S_pending)

\* The statements a request has issued so far, in order.
Issued(k) == [i \in 1..Len(k.calls) |-> k.calls[i].stmt]

\* C17: a listing issues count, then data only after the count has
\* succeeded; a failed count is answered 500 with no data query; a create,
\* read, update or delete that passes validation issues exactly one
\* statement; a failed statement is answered 500 and nothing is issued
\* after it; every request gets exactly one response, and every request
\* whose statement is pending gets its response in the end.
C17_StorageCallsInOrder ==
  /\ [](LET k == inflight[1]
        IN  /\ \A i \in 1..Len(k.calls) : ~k.calls[i].ok => i = Len(k.calls)
            /\ k.req.op = "list" =>
                 /\ Issued(k) \in {<<>>, <<"count">>, <<"count", "data">>}
                 /\ k.stmt = "data" => Issued(k) = <<"count">>
                 /\ (k.pc = "responded" /\ k.res.status = 200) =>
                      Issued(k) = <<"count", "data">>
            /\ k.req.op \in {"create", "read", "update", "delete"} =>
                 /\ Len(k.calls) <= 1
                 /\ (k.pc = "responded" /\ k.res.status # 400) =>
                      Issued(k) = <<FirstStatement(k.req.op)>>
            /\ k.pc = "responded" =>
                 /\ k.sent = 1
                 /\ (k.res.status = 500) =
                      (k.calls # <<>> /\ ~k.calls[Len(k.calls)].ok)
            /\ k.pc # "responded" => k.sent = 0)
  /\ (inflight[1].pc = "storage" ~> inflight[1].pc = "responded")

C17_Witness ==
  LET k == inflight[1]
  IN  /\ k.req.op = "list" /\ k.pc = "responded"
      /\ k.res.status = 500
      /\ k.calls = <<[stmt |-> "count", ok |-> FALSE]>>
      /\ orders # {}

-----------------------------------------------------------------------------
(* Properties of requests in flight at the same time, checked under        *)
(* SpecRace.                                                               *)

\* The UPDATE of connection d ran while that of connection c was pending,
\* the UPDATE of c ran next, on the same stored order, and both requests
\* are still in flight.
UpdatedInTurn(d, c) ==
  /\ c # d
  /\ inflight[d].pc = "responded" /\ inflight[c].pc = "responded"
  /\ inflight[d].req.op = "update" /\ inflight[c].req.op = "update"
  /\ inflight[d].req.id = inflight[c].req.id
  /\ c \in inflight[d].during /\ d \in inflight[c].after
  /\ inflight[d].calls = <<[stmt |-> "update", ok |-> TRUE]>>
  /\ inflight[c].calls = <<[stmt |-> "update", ok |-> TRUE]>>
  /\ inflight[d].seen # NoRow

\* C18: two updates of one stored order that are in flight together are
\* each applied as one statement, with no conflict detection: both are
\* answered 200, the second runs on the row the first has left, and the
\* order ends as the first then the second would leave it: a field both
\* supply has the value of the one that ran later, a field one supplies has
\* that one's value, the others are as they were.
C18_LastWriterWins ==
  \A d, c \in Clients :
    UpdatedInTurn(d, c) =>
      LET first  == inflight[d]
          second == inflight[c]
      IN  /\ first.res.status = 200 /\ second.res.status = 200
          /\ second.seen.id = first.seen.id
          /\ \A f \in Fields :
               second.seen[f] = IF Given(first.req.body[f])
                                  THEN StoredForm(f, first.req.body[f])
                                  ELSE first.seen[f]
          /\ \E o \in orders :
               /\ o.id = first.seen.id
               /\ o.created_at = first.seen.created_at
               /\ \A f \in Fields :
                    o[f] = IF Given(second.req.body[f])
                             THEN StoredForm(f, second.req.body[f])
                           ELSE IF Given(first.req.body[f])
                             THEN StoredForm(f, first.req.body[f])
                           ELSE first.seen[f]

C18_Witness ==
  \E d, c \in Clients :
    /\ UpdatedInTurn(d, c)
    /\ inflight[d].req.body.status = Str(S_completed)
    /\ inflight[c].req.body.status = Str(S_cancelled)
    /\ \E o \in orders :
         /\ MatchesId(o, inflight[c].req.id)
         /\ o.status = Str(S_cancelled)
         /\ o.customer_name = Str(S_Bob)
         /\ o.amount = Num(100)

\* C19: a successful listing is consistent in itself whatever other
\* clients commit between its count query and its data query: data holds
\* min(limit, max(0, totalOrders - (page-1)*limit)) orders.
C19_ListConsistent ==
  \A c \in Clients :
    LET k == inflight[c]
        p == k.res.pagination
        rest == p.totalOrders - (p.page - 1) * p.limit
    IN  (k.req.op = "list" /\ k.pc = "responded" /\ k.res.status = 200) =>
          Len(k.res.data) = IF rest <= 0 THEN 0 ELSE IF rest < p.limit THEN rest ELSE p.limit

====
